---- MODULE Spec2Model ----
(***************************************************************************)
(* Model of pdf2docx/font/Fonts.py: the Fonts collection (get), the name   *)
(* normalisation, the decoding of the naming table, the CJK classifier,    *)
(* the line-height ratio and the extraction loop.                          *)
(*                                                                         *)
(* Representation:                                                         *)
(*   - a str is a sequence of code points, a bytes a sequence of 0..255;   *)
(*   - a float is the exact rational it stands for, a reduced fraction     *)
(*     [num, den] with den > 0 (rounding is not modelled);                 *)
(*   - a call's outcome is [ok |-> TRUE, val |-> v] when it returns v and  *)
(*     [ok |-> FALSE, exc |-> e] when it raises e.                         *)
(***************************************************************************)
EXTENDS Integers, Sequences, FiniteSets, TLC

VARIABLES
    pc,      \* extract: "pages" (lines 49-51), "loop" (56-76), "done" (78), "raised"
    seen,    \* extract: the f[0] values page.get_fonts() has yielded so far, in order
    xrefs,   \* extract: the local set xrefs
    todo,    \* extract: what the iteration over xrefs has still to yield
    done,    \* extract: the xrefs whose loop body ran, in order (parallel to fonts)
    cur,     \* extract: what fitz_doc.extract_font(xref) returned for the last xref
    fonts,   \* extract: the local list fonts
    raised,  \* extract: the exception that left extract, "" when none
    self,    \* the Fonts collection a get is called on
    call     \* the last call of a method on its own: [fn, arg, ret]

vars == <<pc, seen, xrefs, todo, done, cur, fonts, raised, self, call>>

(***************************************************************************)
(* Bounds of the model.                                                    *)
(***************************************************************************)
MaxNameLen == 4        \* raw names given to _normalized_font_name
MaxFontNameLen == 1    \* names of the Fonts of a collection get is called on
MaxQueryLen == 2       \* font_name arguments of get
MaxFonts == 2          \* length of a collection get is called on
MaxRecords == 3        \* records of a naming table
MaxObserved == 2       \* fonts the pages of a document list
MaxXref == 3           \* cross-reference numbers of the fonts of a document

(***************************************************************************)
(* Strings.                                                                *)
(***************************************************************************)
Ord ==
    (" " :> 32) @@ ("+" :> 43) @@ ("-" :> 45) @@
    ("A" :> 65) @@ ("B" :> 66) @@ ("C" :> 67) @@ ("D" :> 68) @@ ("E" :> 69) @@
    ("F" :> 70) @@ ("G" :> 71) @@ ("I" :> 73) @@ ("L" :> 76) @@ ("O" :> 79) @@
    ("P" :> 80) @@ ("R" :> 82) @@ ("Z" :> 90) @@
    ("a" :> 97) @@ ("b" :> 98) @@ ("c" :> 99) @@ ("d" :> 100) @@ ("e" :> 101) @@
    ("f" :> 102) @@ ("i" :> 105) @@ ("l" :> 108) @@ ("n" :> 110) @@ ("o" :> 111) @@
    ("r" :> 114) @@ ("x" :> 120) @@ ("y" :> 121)

\* The str written as the sequence cs of its characters.
Str(cs) == [i \in 1..Len(cs) |-> Ord[cs[i]]]

SeqsUpTo(S, n) == UNION {[1..k -> S] : k \in 0..n}

\* Python's `sub in s` on str.
Contains(s, sub) ==
    \E i \in 0..(Len(s) - Len(sub)) : SubSeq(s, i + 1, i + Len(sub)) = sub

\* str.replace(' ', '')
RECURSIVE RemoveSpaces(_)
RemoveSpaces(s) ==
    IF s = <<>> THEN <<>>
    ELSE IF Head(s) = Ord[" "] THEN RemoveSpaces(Tail(s))
    ELSE <<Head(s)>> \o RemoveSpaces(Tail(s))

\* str.upper() on the code points of the model (ASCII letters are the cased ones).
Upper(s) == [i \in 1..Len(s) |-> IF s[i] \in 97..122 THEN s[i] - 32 ELSE s[i]]

\* str.split(sep) for a one-character sep: the list of the segments.
RECURSIVE Split(_, _)
Split(s, sep) ==
    IF \A i \in 1..Len(s) : s[i] # sep THEN <<s>>
    ELSE LET i == CHOOSE j \in 1..Len(s) :
                      s[j] = sep /\ \A k \in 1..(j - 1) : s[k] # sep
         IN  <<SubSeq(s, 1, i - 1)>> \o Split(SubSeq(s, i + 1, Len(s)), sep)

(***************************************************************************)
(* Floats as reduced fractions.                                            *)
(***************************************************************************)
Abs(x) == IF x < 0 THEN -x ELSE x

RECURSIVE Gcd(_, _)
Gcd(a, b) == IF b = 0 THEN a ELSE Gcd(b, a % b)

\* The float n / d, d # 0.
Ratio(n, d) ==
    LET g == Gcd(Abs(n), Abs(d))
        s == IF d < 0 THEN -1 ELSE 1
    IN  [num |-> (s * n) \div g, den |-> (s * d) \div g]

(***************************************************************************)
(* Font = namedtuple('Font', ['name','line_height'])                       *)
(***************************************************************************)
Font(name, line_height) == [name |-> name, line_height |-> line_height]

Returns(v) == [ok |-> TRUE, val |-> v]
Raises(e) == [ok |-> FALSE, exc |-> e]

(***************************************************************************)
(* Fonts._normalized_font_name                                             *)
(***************************************************************************)
\* A slip: the part after the first '-' is kept, name.split('-', 1)[-1].
NormalizedKeepsAfterMinus(name) ==
    LET a == Split(name, Ord["+"])
        t == a[Len(a)]
        b == Split(t, Ord["-"])
    IN  IF Len(b) = 1 THEN t ELSE SubSeq(t, Len(b[1]) + 2, Len(t))

\* A slip: the part after the first '+' is kept, name.split('+', 1)[-1].
NormalizedAfterFirstPlus(name) ==
    LET a == Split(name, Ord["+"])
        t == IF Len(a) = 1 THEN name ELSE SubSeq(name, Len(a[1]) + 2, Len(name))
    IN  Split(t, Ord["-"])[1]

_normalized_font_name(name) ==
    LET a == Split(name, Ord["+"])
    IN  Split(a[Len(a)], Ord["-"])[1]

(***************************************************************************)
(* Fonts.get                                                               *)
(***************************************************************************)
DefaultLineHeight == Ratio(12, 10)

\* The loop of get from the i-th font of the collection on.
RECURSIVE GetFrom(_, _, _)
GetFrom(coll, i, font_name) ==
    LET normalized == Upper(RemoveSpaces(font_name)) IN
    IF i > Len(coll) THEN Font(font_name, DefaultLineHeight)
    ELSE LET name == Upper(RemoveSpaces(coll[i].name)) IN
         IF Contains(name, normalized) \/ Contains(normalized, name)
         THEN coll[i]
         ELSE GetFrom(coll, i + 1, font_name)

\* A slip: only `normalized_font_name in name` is tested.
GetOneWay(coll, font_name) ==
    LET normalized == Upper(RemoveSpaces(font_name))
        hits == {i \in 1..Len(coll) :
                   Contains(Upper(RemoveSpaces(coll[i].name)), normalized)}
    IN  IF hits = {} THEN Font(font_name, DefaultLineHeight)
        ELSE coll[CHOOSE i \in hits : \A j \in hits : i <= j]

get(coll, font_name) == GetFrom(coll, 1, font_name)

(***************************************************************************)
(* The static tables of ..common.constants.  Dictionaries are given by     *)
(* their values, which is all the code reads.                              *)
(***************************************************************************)
CJK_CODEPAGE_BITS == {17, 18, 19, 20, 21}

CJK_UNICODE_RANGE_BITS == {28, 49, 50, 51, 52, 54, 55, 56, 59, 61, 83}

\* Hangul Jamo and Hiragana.
CJK_UNICODE_RANGES == << <<4352, 4607>>, <<12352, 12447>> >>

Arial == Str(<<"A","r","i","a","l">>)

Calibri == Str(<<"C","a","l","i","b","r","i">>)

DICT_FONT_LINE_HEIGHT ==
    << Font(Arial, Ratio(115, 100)), Font(Calibri, Ratio(122, 100)) >>

\* Fonts.get_defult_fonts
get_defult_fonts == DICT_FONT_LINE_HEIGHT

(***************************************************************************)
(* A TTFont.  keys is the set of the tags of its tables; the other fields  *)
(* are what the tables hold where they are present:                        *)
(*   names            tt['name'].names, records [nameID, string]           *)
(*   ascent, descent, lineGap                        of tt['hhea']         *)
(*   unitsPerEm                                      of tt['head']         *)
(*   ulCodePageRange1, ulUnicodeRange1..3            of tt['OS/2']         *)
(*   bestCmap         what the cmap table's getBestCmap() returns: the     *)
(*                    set of the code points of the best Unicode subtable, *)
(*                    or None when the table has no Unicode subtable       *)
(* None is the tt of a buffer TTFont() raised TTLibError on.               *)
(***************************************************************************)
None == [none |-> TRUE]

NoCmap == [none |-> TRUE, keys |-> {}]
Cmap(keys) == [none |-> FALSE, keys |-> keys]

RequiredTables == {"name", "hhea", "head", "OS/2"}
AllTables == RequiredTables \cup {"cmap"}

\* tt_font.getBestCmap(): self["cmap"].getBestCmap(), KeyError without the table.
getBestCmap(tt_font) ==
    IF "cmap" \in tt_font.keys THEN Returns(tt_font.bestCmap) ELSE Raises("KeyError")

(***************************************************************************)
(* Fonts._is_valid                                                         *)
(***************************************************************************)
\* A slip: 'OS/2' is left out of the keys tested.
IsValidWithoutOS2(tt_font) ==
    IF tt_font = None THEN FALSE
    ELSE \A key \in {"name", "hhea", "head"} : key \in tt_font.keys

_is_valid(tt_font) ==
    IF tt_font = None THEN FALSE
    ELSE \A key \in {"name", "hhea", "head", "OS/2"} : key \in tt_font.keys

(***************************************************************************)
(* Fonts.get_font_family_name                                              *)
(***************************************************************************)
FONT_SPECIFIER_NAME_ID == 4
FONT_SPECIFIER_FAMILY_ID == 1

\* bytes.decode('utf-16-be'): two bytes a code unit, an odd length an error
\* (the bytes of the model form no surrogates).
DecodeUtf16BE(string) ==
    IF Len(string) % 2 = 1 THEN Raises("UnicodeDecodeError")
    ELSE Returns([i \in 1..(Len(string) \div 2) |->
                     256 * string[2 * i - 1] + string[2 * i]])

\* bytes.decode('latin-1'): every byte is its code point.
DecodeLatin1(string) == Returns(string)

\* Lines 114-117.
DecodeRecord(string) ==
    IF \E i \in 1..Len(string) : string[i] = 0
    THEN DecodeUtf16BE(string)
    ELSE DecodeLatin1(string)

\* The loop of lines 113-124 from the i-th record on: the value of family after it.
RECURSIVE ScanNames(_, _, _, _)
ScanNames(names, i, name, family) ==
    IF i > Len(names) THEN Returns(family)
    ELSE LET record == names[i]
             name_str == DecodeRecord(record.string)
         IN  IF ~name_str.ok THEN name_str
             ELSE LET name2 == IF record.nameID = FONT_SPECIFIER_NAME_ID /\ name = <<>>
                               THEN name_str.val ELSE name
                      family2 == IF /\ ~(record.nameID = FONT_SPECIFIER_NAME_ID /\ name = <<>>)
                                    /\ record.nameID = FONT_SPECIFIER_FAMILY_ID
                                    /\ family = <<>>
                                 THEN name_str.val ELSE family
                  IN  IF name2 # <<>> /\ family2 # <<>> THEN Returns(family2)
                      ELSE ScanNames(names, i + 1, name2, family2)

\* A slip: the full name (nameID 4) is returned when no family name was found.
FamilyOrFullName(tt_font) ==
    LET family == ScanNames(tt_font.names, 1, <<>>, <<>>)
        full == {i \in 1..Len(tt_font.names) :
                    /\ tt_font.names[i].nameID = FONT_SPECIFIER_NAME_ID
                    /\ DecodeRecord(tt_font.names[i].string).ok
                    /\ DecodeRecord(tt_font.names[i].string).val # <<>>}
    IN  IF ~family.ok THEN family
        ELSE IF family.val = <<>> /\ full # {}
        THEN Returns(_normalized_font_name(
                 DecodeRecord(tt_font.names[CHOOSE i \in full : \A j \in full : i <= j].string).val))
        ELSE Returns(_normalized_font_name(family.val))

get_font_family_name(tt_font) ==
    LET family == ScanNames(tt_font.names, 1, <<>>, <<>>)
    IN  IF family.ok THEN Returns(_normalized_font_name(family.val)) ELSE family

(***************************************************************************)
(* Fonts.is_cjk_font                                                       *)
(***************************************************************************)
RECURSIVE Pow2(_)
Pow2(n) == IF n = 0 THEN 1 ELSE 2 * Pow2(n - 1)

\* word & (1 << bit), as a truth value
BitSet(word, bit) == (word \div Pow2(bit)) % 2 = 1

\* Lines 176-178.
CodePageCheck(tt_font) ==
    \E bit \in CJK_CODEPAGE_BITS : BitSet(tt_font.ulCodePageRange1, bit)

\* Lines 181-192.
UnicodeRangeCheck(tt_font) ==
    \E bit \in CJK_UNICODE_RANGE_BITS :
        IF bit \in 0..31 THEN BitSet(tt_font.ulUnicodeRange1, bit)
        ELSE IF bit \in 32..63 THEN BitSet(tt_font.ulUnicodeRange2, bit - 32)
        ELSE IF bit \in 64..95 THEN BitSet(tt_font.ulUnicodeRange3, bit - 64)
        ELSE FALSE

\* Lines 195-199: `int(x) in cmap` raises TypeError when cmap is None.
CmapCheck(tt_font) ==
    LET cmap == getBestCmap(tt_font) IN
    IF ~cmap.ok THEN cmap
    ELSE IF cmap.val.none THEN Raises("TypeError")
    ELSE Returns(\E r \in 1..Len(CJK_UNICODE_RANGES) :
                    \E x \in CJK_UNICODE_RANGES[r][1]..CJK_UNICODE_RANGES[r][2] :
                        x \in cmap.val.keys)

is_cjk_font(tt_font) ==
    IF CodePageCheck(tt_font) THEN Returns(TRUE)
    ELSE IF UnicodeRangeCheck(tt_font) THEN Returns(TRUE)
    ELSE CmapCheck(tt_font)

(***************************************************************************)
(* Fonts.get_line_height_factor                                            *)
(***************************************************************************)
\* A slip: hhea_descent is added as it is, without abs().
LineHeightWithoutAbs(tt_font) ==
    LET cjk == is_cjk_font(tt_font)
        hhea_total_height == tt_font.ascent + tt_font.descent
        hhea_btb_distance == hhea_total_height + tt_font.lineGap
    IN  IF ~cjk.ok THEN cjk
        ELSE IF tt_font.unitsPerEm = 0 THEN Raises("ZeroDivisionError")
        ELSE IF cjk.val THEN Returns(Ratio(13 * hhea_total_height, 10 * tt_font.unitsPerEm))
        ELSE Returns(Ratio(hhea_btb_distance, tt_font.unitsPerEm))

\* distance is 1.3*hhea_total_height or 1.0*hhea_btb_distance, a float, and
\* float / 0 raises ZeroDivisionError.
get_line_height_factor(tt_font) ==
    LET hhea_ascent == tt_font.ascent
        hhea_descent == tt_font.descent
        hhea_linegap == tt_font.lineGap
        units_per_em == tt_font.unitsPerEm
        cjk == is_cjk_font(tt_font)
        hhea_total_height == hhea_ascent + Abs(hhea_descent)
        hhea_btb_distance == hhea_total_height + hhea_linegap
    IN  IF ~cjk.ok THEN cjk
        ELSE IF units_per_em = 0 THEN Raises("ZeroDivisionError")
        ELSE IF cjk.val THEN Returns(Ratio(13 * hhea_total_height, 10 * units_per_em))
        ELSE Returns(Ratio(hhea_btb_distance, units_per_em))

(***************************************************************************)
(* Fonts.extract                                                           *)
(***************************************************************************)
\* TTFont(io.BytesIO(buffer)).  A buffer is given by what the decoder makes
\* of it: the tables of an sfnt container, or nothing (an empty, truncated
\* or otherwise malformed buffer), on which it raises TTLibError.
TTFont(buffer) ==
    IF buffer.sfnt THEN Returns(buffer.tt) ELSE Raises("TTLibError")

\* `for xref in xrefs` over a set of int: CPython yields the entries in
\* the order of their slots in the hash table.  hash(x) = x, and up to four
\* entries below 8 sit in the initial table of 8 slots at slot x % 8.
RECURSIVE SetIterOrder(_)
SetIterOrder(S) ==
    IF S = {} THEN <<>>
    ELSE LET x == CHOOSE y \in S : \A z \in S : y % 8 <= z % 8
         IN  <<x>> \o SetIterOrder(S \ {x})

\* Lines 57-76, the body of the loop for what extract_font returned: the
\* Font appended to fonts, or the exception that leaves extract.
LoopBody(f) ==
    LET name == _normalized_font_name(f.basename)
        decoded == TTFont(f.buffer)
        tt == IF decoded.ok THEN decoded.val ELSE None
        fallback == Returns(get(get_defult_fonts, name))
    IN  IF f.ext # "n/a" /\ _is_valid(tt)
        THEN LET family == get_font_family_name(tt)
                 line_height == get_line_height_factor(tt)
             IN  IF ~family.ok THEN family
                 ELSE IF ~line_height.ok THEN line_height
                 ELSE Returns(Font(family.val, line_height.val))
        ELSE fallback

(***************************************************************************)
(* Inputs of _normalized_font_name and of get.                             *)
(***************************************************************************)
NameAlphabet == {Ord["+"], Ord["-"], Ord["A"], Ord["B"]}

CalibriBold ==
    Str(<<"B","C","D","G","E","E","+","C","a","l","i","b","r","i","-","B","o","l","d">>)

OnlyPrefix == Str(<<"+","O","n","l","y","P","r","e","f","i","x","-">>)

ExampleRawNames == {CalibriBold, Arial, OnlyPrefix}

RawNames == SeqsUpTo(NameAlphabet, MaxNameLen) \cup ExampleRawNames

GetAlphabet == {Ord[" "], Ord["a"], Ord["A"], Ord["b"]}

FontNameAlphabet == {Ord[" "], Ord["a"], Ord["b"]}

CollectionLineHeight == Ratio(118, 100)

CollectionFonts ==
    {Font(n, CollectionLineHeight) : n \in SeqsUpTo(FontNameAlphabet, MaxFontNameLen)}

Collections ==
    SeqsUpTo(CollectionFonts, MaxFonts) \cup {<<Font(Calibri, CollectionLineHeight)>>}

ExampleQueries ==
    { Str(<<"C","a","l","i","b","r","i","-","B","o","l","d">>),
      Str(<<"C","A","L","I","B","R","I">>),
      Str(<<"c","a","l","i","b","r","i"," ","b","o","l","d">>),
      Str(<<"A","n","y">>) }

Queries == SeqsUpTo(GetAlphabet, MaxQueryLen) \cup ExampleQueries

(***************************************************************************)
(* Inputs of the methods that read a TTFont.                               *)
(***************************************************************************)
NameRecord(nameID, string) == [nameID |-> nameID, string |-> string]

\* A TTFont with the tables of keys.
TT(keys, names, hhea, unitsPerEm, os2, bestCmap) ==
    [ keys |-> keys, names |-> names,
      ascent |-> hhea[1], descent |-> hhea[2], lineGap |-> hhea[3],
      unitsPerEm |-> unitsPerEm,
      ulCodePageRange1 |-> os2[1], ulUnicodeRange1 |-> os2[2],
      ulUnicodeRange2 |-> os2[3], ulUnicodeRange3 |-> os2[4],
      bestCmap |-> bestCmap ]

\* The metrics of the example: ascent 880, descent -120, lineGap 0.
ExampleHhea == <<880, -120, 0>>

NoBits == <<0, 0, 0, 0>>

\* "A" in latin-1; "B" in UTF-16-BE; "B+A-B" in latin-1; the empty string;
\* a single zero byte, which is no UTF-16.
NameStrings ==
    { <<65>>, <<0, 66>>, <<66, 43, 65, 45, 66>>, <<>>, <<0>> }

NameRecords == {NameRecord(id, b) : id \in {1, 2, 4}, b \in NameStrings}

NamingTables == SeqsUpTo(NameRecords, MaxRecords)

FamilyInputs ==
    {TT(AllTables, names, ExampleHhea, 1000, NoBits, Cmap({65})) : names \in NamingTables}

\* ulCodePageRange1: bit 17 is a CJK code page, bit 16 is not.
\* ulUnicodeRange1: bit 28 is a CJK range, bit 17 is not.
\* ulUnicodeRange2: bit 17 is range 49, a CJK range; bit 28 is range 60, none.
\* ulUnicodeRange3: bit 19 is range 83, a CJK range; bit 17 is range 81, none.
CjkInputs ==
    {TT(keys, <<>>, ExampleHhea, 1000, <<cp, u1, u2, u3>>, cm) :
        keys \in {AllTables, RequiredTables},
        cp \in {0, Pow2(17), Pow2(16)},
        u1 \in {0, Pow2(28), Pow2(17)},
        u2 \in {0, Pow2(17), Pow2(28)},
        u3 \in {0, Pow2(19), Pow2(17)},
        cm \in {NoCmap, Cmap({}), Cmap({65}), Cmap({12352}), Cmap({65, 4607})}}

LineHeightInputs ==
    {TT(AllTables, <<>>, <<a, d, g>>, u, <<cp, 0, 0, 0>>, cm) :
        a \in {0, 880, 1900},
        d \in {-120, 0, 500},
        g \in {0, 90, -50},
        u \in {0, 1000, 2048},
        cp \in {0, Pow2(17)},
        cm \in {NoCmap, Cmap({65})}}

(***************************************************************************)
(* Inputs of extract: what fitz_doc.extract_font(xref) may return.         *)
(***************************************************************************)
SubsetArialBold ==
    Str(<<"A","B","C","D","E","F","+","A","r","i","a","l","-","B","o","l","d">>)

UnknownName == Str(<<"Z">>)

Garbage == [sfnt |-> FALSE, tt |-> None]
Sfnt(tt) == [sfnt |-> TRUE, tt |-> tt]

FontFile(basename, ext, buffer) == [basename |-> basename, ext |-> ext, buffer |-> buffer]

\* A full name only; a full name and the family name "B+A-B".
ExtractNamingTables ==
    { <<NameRecord(4, <<65>>)>>,
      <<NameRecord(4, <<65>>), NameRecord(1, <<66, 43, 65, 45, 66>>)>> }

ExtractTTFonts ==
    {TT(keys, names, ExampleHhea, u, <<cp, 0, 0, 0>>, cm) :
        keys \in {AllTables} \cup {AllTables \ {t} : t \in AllTables},
        names \in ExtractNamingTables,
        u \in {0, 1000},
        cp \in {0, Pow2(17)},
        cm \in {NoCmap, Cmap({65})}}

\* Of the fonts that lack a required table, one per set of tables is enough.
ExtractBuffers ==
    {Garbage} \cup
    {Sfnt(tt) : tt \in {t \in ExtractTTFonts :
        \/ RequiredTables \subseteq t.keys
        \/ /\ t.names = <<NameRecord(4, <<65>>)>>
           /\ t.unitsPerEm = 1000
           /\ t.ulCodePageRange1 = 0
           /\ t.bestCmap = Cmap({65})}}

FontFiles ==
    {FontFile(b, "n/a", Garbage) : b \in {SubsetArialBold, UnknownName}}
    \cup {FontFile(UnknownName, "ttf", Garbage)}
    \cup {FontFile(SubsetArialBold, "ttf", buffer) : buffer \in ExtractBuffers}

(***************************************************************************)
(* The state of extract.                                                   *)
(***************************************************************************)
NoFont == [xref |-> 0, file |-> FontFile(<<>>, "n/a", Garbage)]

extractVars == <<pc, seen, xrefs, todo, done, cur, fonts, raised>>

\* extract has not been called.
ExtractIdle ==
    /\ pc = "idle"
    /\ seen = <<>>
    /\ xrefs = {}
    /\ todo = <<>>
    /\ done = <<>>
    /\ cur = NoFont
    /\ fonts = <<>>
    /\ raised = ""

\* Line 49: extract has been called.
ExtractCalled ==
    /\ pc = "pages"
    /\ seen = <<>>
    /\ xrefs = {}
    /\ todo = <<>>
    /\ done = <<>>
    /\ cur = NoFont
    /\ fonts = <<>>
    /\ raised = ""

\* Lines 50-51: a page lists a font, whose xref is f[0].
GetFonts ==
    /\ pc = "pages"
    /\ Len(seen) < MaxObserved
    /\ \E x \in 1..MaxXref :
          /\ seen' = Append(seen, x)
          /\ xrefs' = xrefs \cup {x}
    /\ UNCHANGED <<pc, todo, done, cur, fonts, raised, self, call>>

\* Lines 54-56: the pages are done and the loop over xrefs begins.
StartLoop ==
    /\ pc = "pages"
    /\ pc' = "loop"
    /\ todo' = SetIterOrder(xrefs)
    /\ fonts' = <<>>
    /\ UNCHANGED <<seen, xrefs, done, cur, raised, self, call>>

\* Lines 56-76: one turn of the loop.
ProcessXref ==
    /\ pc = "loop"
    /\ todo # <<>>
    /\ \E f \in FontFiles :
          LET font == LoopBody(f) IN
          /\ cur' = [xref |-> Head(todo), file |-> f]
          /\ IF font.ok
             THEN /\ fonts' = Append(fonts, font.val)
                  /\ done' = Append(done, Head(todo))
                  /\ todo' = Tail(todo)
                  /\ UNCHANGED <<pc, raised>>
             ELSE /\ pc' = "raised"
                  /\ raised' = font.exc
                  /\ UNCHANGED <<fonts, done, todo>>
    /\ UNCHANGED <<seen, xrefs, self, call>>

\* Line 78.
Return ==
    /\ pc = "loop"
    /\ todo = <<>>
    /\ pc' = "done"
    /\ UNCHANGED <<seen, xrefs, todo, done, cur, fonts, raised, self, call>>

NextExtract == GetFonts \/ StartLoop \/ ProcessXref \/ Return

(***************************************************************************)
(* Spec: a call of Fonts.extract.                                          *)
(***************************************************************************)
\* A call that has been made and has not returned yet.
Pending == [ok |-> FALSE, exc |-> "pending"]

Called(fn, arg) == [fn |-> fn, arg |-> arg, ret |-> Pending]

NoCall == Called("none", <<>>)

Init == ExtractCalled /\ self = <<>> /\ call = NoCall

Next == NextExtract

Spec == Init /\ [][Next]_vars

(***************************************************************************)
(* SpecNormalize: a call of Fonts._normalized_font_name.                   *)
(***************************************************************************)
InitNormalize ==
    /\ ExtractIdle
    /\ self = <<>>
    /\ call \in {Called("_normalized_font_name", name) : name \in RawNames}

CallNormalize ==
    /\ call.fn = "_normalized_font_name"
    /\ call.ret = Pending
    /\ call' = [call EXCEPT !.ret = Returns(_normalized_font_name(call.arg))]
    /\ UNCHANGED <<extractVars, self>>

NextNormalize == CallNormalize

SpecNormalize == InitNormalize /\ [][NextNormalize]_vars

(***************************************************************************)
(* SpecGet: a call of get on a collection.                                 *)
(***************************************************************************)
InitGet ==
    /\ ExtractIdle
    /\ self \in Collections
    /\ call \in {Called("get", [self |-> self, font_name |-> font_name]) :
                    font_name \in Queries}

CallGet ==
    /\ call.fn = "get"
    /\ call.ret = Pending
    /\ call' = [call EXCEPT !.ret = Returns(get(self, call.arg.font_name))]
    /\ UNCHANGED <<extractVars, self>>

NextGet == CallGet

SpecGet == InitGet /\ [][NextGet]_vars

(***************************************************************************)
(* SpecCjk: a call of Fonts.is_cjk_font.                                   *)
(***************************************************************************)
InitCjk ==
    /\ ExtractIdle
    /\ self = <<>>
    /\ call \in {Called("is_cjk_font", tt) : tt \in CjkInputs}

CallCjk ==
    /\ call.fn = "is_cjk_font"
    /\ call.ret = Pending
    /\ call' = [call EXCEPT !.ret = is_cjk_font(call.arg)]
    /\ UNCHANGED <<extractVars, self>>

NextCjk == CallCjk

SpecCjk == InitCjk /\ [][NextCjk]_vars

(***************************************************************************)
(* SpecLineHeight: a call of Fonts.get_line_height_factor.                 *)
(***************************************************************************)
InitLineHeight ==
    /\ ExtractIdle
    /\ self = <<>>
    /\ call \in {Called("get_line_height_factor", tt) : tt \in LineHeightInputs}

CallLineHeight ==
    /\ call.fn = "get_line_height_factor"
    /\ call.ret = Pending
    /\ call' = [call EXCEPT !.ret = get_line_height_factor(call.arg)]
    /\ UNCHANGED <<extractVars, self>>

NextLineHeight == CallLineHeight

SpecLineHeight == InitLineHeight /\ [][NextLineHeight]_vars

(***************************************************************************)
(* SpecFamily: a call of Fonts.get_font_family_name, on its own or by      *)
(* extract (line 69).                                                      *)
(***************************************************************************)
InitFamily ==
    \/ /\ ExtractIdle
       /\ self = <<>>
       /\ call \in {Called("get_font_family_name", tt) : tt \in FamilyInputs}
    \/ Init

CallFamily ==
    /\ call.fn = "get_font_family_name"
    /\ call.ret = Pending
    /\ call' = [call EXCEPT !.ret = get_font_family_name(call.arg)]
    /\ UNCHANGED <<extractVars, self>>

NextFamily == CallFamily \/ NextExtract

SpecFamily == InitFamily /\ [][NextFamily]_vars

(***************************************************************************)
(* What the claims are stated with.                                        *)
(***************************************************************************)
Returned(fn) == call.fn = fn /\ call.ret # Pending

\* The distinct elements of seq in the order of their first occurrence.
RECURSIVE FirstObserved(_)
FirstObserved(seq) ==
    IF seq = <<>> THEN <<>>
    ELSE LET front == FirstObserved(SubSeq(seq, 1, Len(seq) - 1))
             x == seq[Len(seq)]
         IN  IF \E i \in 1..Len(front) : front[i] = x THEN front ELSE Append(front, x)

Positions(s, c) == {i \in 1..Len(s) : s[i] = c}
Least(S) == CHOOSE i \in S : \A j \in S : i <= j
Greatest(S) == CHOOSE i \in S : \A j \in S : i >= j

\* What follows the first c of s, what follows the last c of s, and what
\* precedes the first c of s; s itself when it holds no c.
AfterFirst(s, c) ==
    IF Positions(s, c) = {} THEN s ELSE SubSeq(s, Least(Positions(s, c)) + 1, Len(s))
AfterLast(s, c) ==
    IF Positions(s, c) = {} THEN s ELSE SubSeq(s, Greatest(Positions(s, c)) + 1, Len(s))
BeforeFirst(s, c) ==
    IF Positions(s, c) = {} THEN s ELSE SubSeq(s, 1, Least(Positions(s, c)) - 1)

\* The font extract has just processed, and how the loop body left.
Processed == cur.xref # 0
Emitted == Processed /\ pc # "raised" /\ done # <<>> /\ done[Len(done)] = cur.xref
CurTT == cur.file.buffer.tt
CurHasRequiredTables ==
    cur.file.buffer.sfnt /\ RequiredTables \subseteq CurTT.keys
CurIsFallback ==
    cur.file.ext = "n/a" \/ ~cur.file.buffer.sfnt \/ ~(RequiredTables \subseteq CurTT.keys)
CurDefault == get(get_defult_fonts, _normalized_font_name(cur.file.basename))

(***************************************************************************)
(* C1: extract never raises, whatever the font references, and the         *)
(* collection it returns has one Font per distinct cross-reference.        *)
(***************************************************************************)
C1_ExtractTotal ==
    /\ pc # "raised"
    /\ pc = "done" => Len(fonts) = Cardinality({seen[i] : i \in 1..Len(seen)})

(***************************************************************************)
(* C2: the returned collection lists the Fonts in the order in which their *)
(* references were first observed on the pages.                            *)
(***************************************************************************)
C2_FirstObservedOrder ==
    pc = "done" => /\ Len(fonts) = Len(done)
                   /\ done = FirstObserved(seen)

(***************************************************************************)
(* C3: get returns the first Font, in insertion order, whose name without  *)
(* spaces and in upper case contains or is contained in the query          *)
(* normalised the same way; with no such Font it returns                   *)
(* Font(font_name, 1.2) with the query as given; the collection is left as *)
(* it was.  With Font("Calibri", 1.18) alone in the collection the queries *)
(* "Calibri-Bold", "CALIBRI" and "calibri bold" return that entry.         *)
(***************************************************************************)
C3_GetFirstMatch ==
    Returned("get") =>
        LET q == Upper(RemoveSpaces(call.arg.font_name))
            coll == call.arg.self
            hits == {i \in 1..Len(coll) :
                        LET n == Upper(RemoveSpaces(coll[i].name))
                        IN  Contains(n, q) \/ Contains(q, n)}
        IN  /\ call.ret.ok
            /\ self = coll
            /\ hits # {} => call.ret.val = coll[Least(hits)]
            /\ hits = {} => call.ret.val =
                   [name |-> call.arg.font_name, line_height |-> [num |-> 6, den |-> 5]]
            /\ coll = <<>> => call.ret.val.name = call.arg.font_name
            /\ (/\ coll = <<Font(Calibri, CollectionLineHeight)>>
                /\ call.arg.font_name \in
                      { Str(<<"C","a","l","i","b","r","i","-","B","o","l","d">>),
                        Str(<<"C","A","L","I","B","R","I">>),
                        Str(<<"c","a","l","i","b","r","i"," ","b","o","l","d">>) })
               => call.ret.val = coll[1]

\* get("calibri bold") has returned the Calibri entry.
C3_Witness ==
    /\ Returned("get")
    /\ self = <<Font(Calibri, CollectionLineHeight)>>
    /\ call.arg.font_name = Str(<<"c","a","l","i","b","r","i"," ","b","o","l","d">>)
    /\ call.ret.val = self[1]

(***************************************************************************)
(* C4, as claimed: _normalized_font_name(s) is what precedes the first '-' *)
(* of what follows the first '+' of s; "BCDGEE+Calibri-Bold" gives         *)
(* "Calibri", "Arial" gives "Arial" and "+OnlyPrefix-" gives "".           *)
(***************************************************************************)
C4_AfterFirstPlus ==
    Returned("_normalized_font_name") =>
        /\ call.ret.ok
        /\ call.ret.val = BeforeFirst(AfterFirst(call.arg, Ord["+"]), Ord["-"])
        /\ call.arg = CalibriBold => call.ret.val = Calibri
        /\ call.arg = Arial => call.ret.val = Arial
        /\ call.arg = OnlyPrefix => call.ret.val = <<>>

(***************************************************************************)
(* C4, amended: _normalized_font_name(s) is what precedes the first '-' of *)
(* what follows the last '+' of s; "BCDGEE+Calibri-Bold" gives "Calibri",  *)
(* "Arial" gives "Arial" and "+OnlyPrefix-" gives "OnlyPrefix".            *)
(***************************************************************************)
C4_AfterLastPlus ==
    Returned("_normalized_font_name") =>
        /\ call.ret.ok
        /\ call.ret.val = BeforeFirst(AfterLast(call.arg, Ord["+"]), Ord["-"])
        /\ call.arg = CalibriBold => call.ret.val = Calibri
        /\ call.arg = Arial => call.ret.val = Arial
        /\ call.arg = OnlyPrefix => call.ret.val = Str(<<"O","n","l","y","P","r","e","f","i","x">>)

\* A name with two '+' has been normalised to what follows the second.
C4_Witness ==
    /\ Returned("_normalized_font_name")
    /\ Cardinality(Positions(call.arg, Ord["+"])) = 2
    /\ call.ret.val # <<>>
    /\ call.ret.val # BeforeFirst(AfterFirst(call.arg, Ord["+"]), Ord["-"])

(***************************************************************************)
(* C5: normalising a normalised name changes nothing.                      *)
(***************************************************************************)
C5_Idempotent ==
    Returned("_normalized_font_name") =>
        /\ call.ret.ok
        /\ _normalized_font_name(call.ret.val) = call.ret.val

\* A name with several '+' and several '-' has been normalised.
C5_Witness ==
    /\ Returned("_normalized_font_name")
    /\ Cardinality(Positions(call.arg, Ord["+"])) >= 2
    /\ Cardinality(Positions(call.arg, Ord["-"])) >= 2
    /\ call.ret.val # call.arg

(***************************************************************************)
(* C6: an embedded font that decodes, has the four required tables and has *)
(* unitsPerEm = 0 gets the Font of the default collection for its          *)
(* normalised base name, and no division by zero is performed.             *)
(***************************************************************************)
C6_ZeroUnitsPerEmFallsBack ==
    (/\ Processed
     /\ cur.file.ext # "n/a"
     /\ CurHasRequiredTables
     /\ CurTT.unitsPerEm = 0)
    => /\ raised # "ZeroDivisionError"
       /\ Emitted => fonts[Len(fonts)] = CurDefault

C9_CjkExact ==
    Returned("is_cjk_font") =>
        LET tt == call.arg
            word(b) == IF b \div 32 = 0 THEN tt.ulUnicodeRange1
                       ELSE IF b \div 32 = 1 THEN tt.ulUnicodeRange2
                       ELSE tt.ulUnicodeRange3
            codepage == \E b \in CJK_CODEPAGE_BITS :
                            (tt.ulCodePageRange1 \div Pow2(b)) % 2 = 1
            range == \E b \in CJK_UNICODE_RANGE_BITS :
                            (word(b) \div Pow2(b % 32)) % 2 = 1
            codepoint == /\ "cmap" \in tt.keys
                         /\ ~tt.bestCmap.none
                         /\ \E x \in tt.bestCmap.keys :
                               \E r \in 1..Len(CJK_UNICODE_RANGES) :
                                  CJK_UNICODE_RANGES[r][1] <= x /\ x <= CJK_UNICODE_RANGES[r][2]
        IN  /\ call.ret.ok
            /\ call.ret.val = (codepage \/ range \/ codepoint)

====
